---- MODULE Spec2Model ----
(***************************************************************************)
(* Octoplus Caffe Nero auto-claimer: the Lambda handler of lambda.ts, the  *)
(* DynamoDB state service (getState, saveState, getNextSundayMidnight),    *)
(* the three Octopus API calls of index.ts and the email send, as a state  *)
(* machine.  One handler run is a sequence of steps, one per await of the  *)
(* handler; the clock, the state table, the loyalty service and the mail   *)
(* transport are the environment.                                          *)
(*                                                                         *)
(* Time is in Unix milliseconds, as in the code.  Day 0 (1970-01-01) is a  *)
(* Thursday; the clock moves over a window of days that starts on Sunday   *)
(* 1970-01-04, so every value stays below 2^31.                            *)
(***************************************************************************)
EXTENDS Integers, Sequences, FiniteSets, TLC

VARIABLES
    clock,      \* Date.now(): the wall clock, Unix ms
    store,      \* the DynamoDB table: account number -> AccountState or Absent
    remote,     \* the loyalty service: account number -> <<the newest claimed voucher>> or <<>>
    nextCode,   \* the loyalty service: the next voucher code it issues
    run,        \* the handler invocations: run id -> its locals and position
    sent,       \* history: voucher code -> number of emails delivered for it
    last,       \* history: account number -> how the account's latest finished run ended
    unsaved,    \* history: codes claimed by a run of this handler and not yet persisted
    parameterCache, \* the parameter service's cache: account id -> entry or NoEntry
    ssm,        \* the parameter store: account id -> what its config path holds
    lookup      \* history: the service call just made (getAccountCredentials,
                \* a date function of the state service), or NoLookup

vars ==
    <<clock, store, remote, nextCode, run, sent, last, unsaved,
      parameterCache, ssm, lookup>>

\* The variables of the handler and of the services it calls, the clock apart.
handlerVars == <<store, remote, nextCode, run, sent, last, unsaved>>

\* The variables of the parameter service.
cacheVars == <<parameterCache, ssm, lookup>>

----------------------------------------------------------------------------
(* Bounds of the model *)

\* The clock window is NumDays days long.
NumDays == 8

\* The loyalty service issues at most MaxCodes voucher codes.
MaxCodes == 2

\* An email delivery is counted up to MaxSent per voucher code.
MaxSent == 2

\* A stored configuration lists at most MaxAddresses notification addresses.
MaxAddresses == 2

\* The date functions are applied to instants of NumDateDays days in a row.
NumDateDays == 14

----------------------------------------------------------------------------
(* Time: Date, getUTCDay, getNextSundayMidnight, the ttl *)

MsPerDay == 86400000

MsPerSecond == 1000

TtlDays == 30

\* Sunday 1970-01-04 00:00:00.000 UTC
FirstInstant == 3 * MsPerDay

\* The instants the clock takes: every day of the window at 00:00:00.000, and
\* the millisecond before and after each Sunday midnight that follows the first.
Instants ==
    { FirstInstant + d * MsPerDay : d \in 0 .. (NumDays - 1) }
    \cup { FirstInstant + d * MsPerDay + o :
             d \in {x \in 1 .. (NumDays - 1) : x % 7 = 0}, o \in {0 - 1, 1} }

\* Date.prototype.getUTCDay: 0 = Sunday ... 6 = Saturday
getUTCDay(ms) == ((ms \div MsPerDay) + 4) % 7

\* A bug that getNextSundayMidnight's comment rules out: on a Sunday the same
\* day's midnight is returned.
getNextSundayMidnightSameSunday(fromMs) ==
    LET day == getUTCDay(fromMs)
        daysUntilSunday == 7 - day
    IN  ((fromMs \div MsPerDay) + (daysUntilSunday % 7)) * MsPerDay

\* A bug: the expiry is a week after the given instant.
getNextSundayMidnightWeekLater(fromMs) == fromMs + 7 * MsPerDay

getNextSundayMidnight(fromMs) ==
    LET day == getUTCDay(fromMs)
        daysUntilSunday == IF day = 0 THEN 7 ELSE 7 - day
    IN  \* setUTCDate(getUTCDate() + daysUntilSunday); setUTCHours(0, 0, 0, 0)
        ((fromMs \div MsPerDay) + daysUntilSunday) * MsPerDay

----------------------------------------------------------------------------
(* Vouchers of the loyalty service *)

\* OctoplusVoucher.expiresAt is a string: absent (or empty), a string Date
\* cannot parse, or an ISO timestamp.
ExpiryAbsent == [kind |-> "absent", ms |-> 0]

ExpiryUnparsable == [kind |-> "unparsable", ms |-> 0]

ExpiryIso(ms) == [kind |-> "iso", ms |-> ms]

\* The expiry dates the loyalty service gives its vouchers: none, an
\* unparsable one, the second Sunday midnight of the window (when the record of
\* a claim of the first week expires), or a day later.
IssuedExpiries ==
    {ExpiryAbsent, ExpiryUnparsable,
     ExpiryIso(FirstInstant + 7 * MsPerDay),
     ExpiryIso(FirstInstant + 8 * MsPerDay)}

\* The barcode value of the voucher with code `code`: never equal to a code.
BarcodeValue(code) == 0 - code

\* A bug: the voucher's code is taken for its barcode.
VoucherInfoCodeAsBarcode(v, accountNumber) ==
    [code |-> v.code, barcode |-> v.code, expiresAt |-> v.expiresAt,
     accountNumber |-> accountNumber]

\* VoucherInfo as claimCaffeNero and fetchLatestCaffeNeroVoucher build it from
\* reward.vouchers[0]
VoucherInfo(v, accountNumber) ==
    [code |-> v.code, barcode |-> v.barcodeValue, expiresAt |-> v.expiresAt,
     accountNumber |-> accountNumber]

NoVoucher == [code |-> 0]

\* new Date(expiresAt).getTime(), or 0 for a missing expiresAt: a number or NaN
voucherExpiresAt(voucher) ==
    IF voucher.expiresAt.kind = "absent" THEN [nan |-> FALSE, ms |-> 0]
    ELSE IF voucher.expiresAt.kind = "unparsable" THEN [nan |-> TRUE, ms |-> 0]
    ELSE [nan |-> FALSE, ms |-> voucher.expiresAt.ms]

\* A bug: the comparison is the wrong way round, now <= voucherExpiresAt.
IsExpiredVoucherReversed(voucher, now) ==
    LET t == voucherExpiresAt(voucher)
    IN  ~t.nan /\ now <= t.ms

\* A bug: a voucher that expires at this very instant is kept.
IsExpiredVoucherStrict(voucher, now) ==
    LET t == voucherExpiresAt(voucher)
    IN  ~t.nan /\ t.ms < now

\* voucherExpiresAt <= now, false when voucherExpiresAt is NaN
IsExpiredVoucher(voucher, now) ==
    LET t == voucherExpiresAt(voucher)
    IN  ~t.nan /\ t.ms <= now

----------------------------------------------------------------------------
(* AccountState *)

Absent == [absent |-> TRUE]

Present(state) == "voucherCode" \in DOMAIN state

\* A bug: every record is keyed by one and the same account number.
buildStateOneKey(accountNumber, voucher, now) ==
    [accountNumber |-> "A-AAAAAAA1",
     voucherCode   |-> voucher.code,
     barcode       |-> voucher.barcode,
     expiresAt     |-> getNextSundayMidnight(now),
     claimedAt     |-> now,
     emailSent     |-> FALSE,
     ttl           |-> (now \div MsPerSecond) + TtlDays * 24 * 60 * 60]

\* A bug: the housekeeping ttl is a week after the claim, no later than the
\* expiry.
buildStateTtlOneWeek(accountNumber, voucher, now) ==
    [accountNumber |-> accountNumber,
     voucherCode   |-> voucher.code,
     barcode       |-> voucher.barcode,
     expiresAt     |-> getNextSundayMidnight(now),
     claimedAt     |-> now,
     emailSent     |-> FALSE,
     ttl           |-> (now \div MsPerSecond) + 7 * 24 * 60 * 60]

buildState(accountNumber, voucher, now) ==
    [accountNumber |-> accountNumber,
     voucherCode   |-> voucher.code,
     barcode       |-> voucher.barcode,
     expiresAt     |-> getNextSundayMidnight(now),
     claimedAt     |-> now,
     emailSent     |-> FALSE,
     ttl           |-> (now \div MsPerSecond) + TtlDays * 24 * 60 * 60]

\* A bug: the record is persisted as buildState made it.
MarkSentKeepsFlag(state) == state

\* const updated = { ...state, emailSent: true }
MarkSent(state) == [state EXCEPT !.emailSent = TRUE]

\* A bug: a record is taken as valid up to and including its expiry instant.
HasValidVoucherInclusive(existingState, now) ==
    Present(existingState) /\ existingState.expiresAt >= now

\* existingState && existingState.expiresAt > now
HasValidVoucher(existingState, now) ==
    Present(existingState) /\ existingState.expiresAt > now

----------------------------------------------------------------------------
(* The handler's response *)

NoAction == "(no action)"

Actions200 ==
    {"none", "email_sent", "offer_not_found", "claimed", "out_of_stock",
     "max_claims_no_voucher", "voucher_expired", "recovered_existing",
     "cannot_claim"}

\* respond(statusCode, data): voucherCode 0, emailSent FALSE, reason "" and
\* error "" stand for a body without that field.
respond(statusCode, success, action, voucherCode, emailSent) ==
    [statusCode |-> statusCode, success |-> success, action |-> action,
     voucherCode |-> voucherCode, emailSent |-> emailSent,
     reason |-> "", error |-> ""]

\* a body with a reason field
withReason(response, reason) == [response EXCEPT !.reason = reason]

SkipReason == "Valid voucher exists and email already sent"

\* The messages of the errors thrown under the handler's try block.
MissingAccountNumber == "Missing accountNumber in event payload"

ParameterNotFound == "Parameter not found or has no value"

InvalidJson == "Invalid JSON format in config parameter"

ApiKeyNotFound == "API key not found in config"

AccountNumberNotFound == "Account number not found in config"

InvalidApiKeyFormat == "Invalid API key format (must start with sk_)"

InvalidAccountNumberFormat == "Invalid account number format (expected format: A-XXXXXXXX)"

FetchStateFailed == "Failed to fetch account state"

SaveStateFailed == "Failed to save account state"

VoucherDetailsMissing == "Claimed successfully but could not retrieve voucher details"

\* query(): a non-2xx HTTP status, or a GraphQL error payload.
RemoteErrors == {"HTTP status", "GraphQL errors"}

\* A bug: the catch block answers with status 200.
respondErrorStatus200(errorMessage) ==
    [respond(200, FALSE, NoAction, 0, FALSE) EXCEPT !.error = errorMessage]

\* the catch block of the handler: error.message goes into the body
respondError(errorMessage) ==
    [respond(500, FALSE, NoAction, 0, FALSE) EXCEPT !.error = errorMessage]

NoResponse == respond(0, FALSE, NoAction, 0, FALSE)

----------------------------------------------------------------------------
(* A handler run *)

NoLast == [action |-> NoAction, statusCode |-> 0, missed |-> 0]

NewRun(a, pc, prev) ==
    [pc        |-> pc,
     acct      |-> a,
     emails    |-> 0,          \* credentials.emails.length
     existing  |-> Absent,     \* existingState
     now       |-> 0,          \* const now = Date.now() of step 2
     credsOk   |-> FALSE,
     parameter |-> [kind |-> ""], \* the stored configuration the run was given
     readOk    |-> FALSE,
     readFailed |-> FALSE,     \* getState threw
     offerReturned |-> FALSE,  \* checkCaffeNeroOffer returned offerStatus
     found     |-> FALSE,      \* offerStatus.found
     canClaim  |-> FALSE,      \* offerStatus.canClaim
     cannotClaimReason |-> "", \* offerStatus.cannotClaimReason, "" for null
     reason    |-> "",         \* offerStatus.cannotClaimReason || 'UNKNOWN'
     voucher   |-> NoVoucher,  \* the voucher claimed or fetched
     state     |-> Absent,     \* the state to persist
     path      |-> NoAction,   \* the action the success path reports
     resp      |-> NoResponse,
     aborted   |-> FALSE,
     \* history of the run
     nOffer    |-> 0,          \* offer-status queries issued
     nClaim    |-> 0,          \* claim mutations issued
     nList     |-> 0,          \* claimed-voucher listings issued
     nWrite    |-> 0,          \* saveState calls
     nWriteOk  |-> 0,          \* saveState calls that succeeded
     nSend     |-> 0,          \* sendVoucherEmail calls
     sendFailed |-> FALSE,     \* sendVoucherEmail threw
     writeFailed |-> FALSE,    \* saveState threw
     claimedCode |-> 0,        \* the code the run's claim mutation obtained
     fetchedUnsaved |-> FALSE, \* the voucher fetched was claimed but never persisted
     listed    |-> "",         \* what the run's voucher listing held: "empty", "voucher"
     prev      |-> prev]       \* how the account's previous run ended

Active(rr) == rr.pc \notin {"idle", "done"}

\* The run ends with response `resp`.
Finish(rr, resp) == [rr EXCEPT !.pc = "done", !.resp = resp]

\* A bug: a failed request is issued again.
RemoteFailedRetries(rr, error) == rr

\* query() throws; nothing between the call and the handler's catch handles it.
RemoteFailed(rr, error) == Finish(rr, respondError(error))

\* A bug: a failed read is taken for a missing record.
ReadFailedAsAbsent(rr) == [rr EXCEPT !.readFailed = TRUE, !.pc = "offer"]

\* getState throws 'Failed to fetch account state'; the handler's catch
\* answers 500.
ReadFailed(rr) ==
    Finish([rr EXCEPT !.readFailed = TRUE], respondError(FetchStateFailed))

\* The run persisted its record and the email was not delivered: the send
\* threw, or the run was cut short between the write and the send.
Missed(rr) == rr.sendFailed \/ (rr.aborted /\ rr.nWriteOk = 1)

\* How a run ended, and the voucher code whose email is still undelivered, if
\* any (0 for none): this run's, or the one it inherited and did not overwrite.
Summary(rr) ==
    [action |-> rr.resp.action, statusCode |-> rr.resp.statusCode,
     missed |-> IF Missed(rr) THEN rr.voucher.code
                ELSE IF rr.nWriteOk = 0 THEN rr.prev.missed ELSE 0]

\* The variables after run r moved to rr, which may have ended.
Step(r, rr) ==
    /\ UNCHANGED cacheVars
    /\ run' = [run EXCEPT ![r] = rr]
    /\ last' = IF rr.pc = "done" THEN [last EXCEPT ![rr.acct] = Summary(rr)]
               ELSE last

----------------------------------------------------------------------------
(* Initial states *)

\* A voucher the account holds on the loyalty service before the first run,
\* with a dated or a missing expiry.
InitVouchers ==
    { [code |-> 1, barcodeValue |-> BarcodeValue(1), expiresAt |-> e] :
        e \in IssuedExpiries \ {ExpiryUnparsable} }

\* A record left by an earlier run (emailSent) or written by another tool.
InitStates(a) ==
    { [buildState(a, [code |-> 1, barcode |-> BarcodeValue(1)], FirstInstant)
         EXCEPT !.emailSent = e] : e \in BOOLEAN }

InitWith(A, R) ==
    /\ clock = FirstInstant
    /\ store \in [A -> {Absent} \cup UNION {InitStates(a) : a \in A}]
    /\ \A a \in A : Present(store[a]) => store[a].accountNumber = a
    /\ remote \in [A -> {<<>>} \cup {<<v>> : v \in InitVouchers}]
    /\ nextCode = 2
    /\ run = [r \in R |-> NewRun(CHOOSE a \in A : TRUE, "idle", NoLast)]
    /\ sent = [c \in 1 .. MaxCodes |-> 0]
    /\ last = [a \in A |-> NoLast]
    /\ unsaved = {}

----------------------------------------------------------------------------
(* The parameter service: values held, the cache at a cold start *)

NoEntry == [cached |-> FALSE]

NoLookup == [key |-> ""]

\* config.emails: absent, or a list of strings (each a sequence of characters)
NoEmails == [absent |-> TRUE, list |-> <<>>]

EmailList(list) == [absent |-> FALSE, list |-> list]

\* A cold start: new Map(), and no call made yet.
ColdCache(A) ==
    /\ parameterCache = [a \in A |-> NoEntry]
    /\ ssm = [a \in A |-> [kind |-> "missing"]]
    /\ lookup = NoLookup

----------------------------------------------------------------------------
(* Step 1: the event arrives, credentials are fetched *)

\* The handler's entry, up to await getAccountCredentials.
Invoke(r, a) ==
    /\ \/ Step(r, NewRun(a, "creds", last[a]))
       \/ \* if (!event.accountNumber) throw: the event names no account
          /\ run' = [run EXCEPT ![r] = Finish(NewRun(a, "creds", NoLast),
                                           respondError(MissingAccountNumber))]
          /\ last' = last
          /\ UNCHANGED cacheVars
    /\ UNCHANGED <<clock, store, remote, nextCode, sent, unsaved>>

\* The handler is invoked for account a, no other run being under way.
Start(r, a) ==
    /\ \A q \in DOMAIN run : ~Active(run[q])
    /\ Invoke(r, a)

\* The handler is invoked for account a, once in execution context r, while
\* runs of other accounts may be under way in other contexts.
StartBeside(r, a) ==
    /\ run[r].pc = "idle"
    /\ \A q \in DOMAIN run : Active(run[q]) => run[q].acct # a
    /\ Invoke(r, a)

\* The characters of the texts the stored configurations hold.
Chars(text) ==
    CASE text = "" -> <<>>
      [] text = "sk_live" -> <<"s", "k", "_", "l", "i", "v", "e">>
      [] text = "pk_live" -> <<"p", "k", "_", "l", "i", "v", "e">>
      [] text = "A-AAAAAAA1" -> <<"A", "-", "A", "A", "A", "A", "A", "A", "A", "1">>
      [] text = "A-BBBBBBB2" -> <<"A", "-", "B", "B", "B", "B", "B", "B", "B", "2">>
      [] text = "a-aaaaaaa1" -> <<"a", "-", "a", "a", "a", "a", "a", "a", "a", "1">>
      [] text = "A-AAAAAA1" -> <<"A", "-", "A", "A", "A", "A", "A", "A", "1">>
      [] text = "A-AAAAAAA12" -> <<"A", "-", "A", "A", "A", "A", "A", "A", "A", "1", "2">>
      [] text = "B-AAAAAAA1" -> <<"B", "-", "A", "A", "A", "A", "A", "A", "A", "1">>

UpperCaseOrDigit ==
    {"A", "B", "C", "D", "E", "F", "G", "H", "I", "J", "K", "L", "M", "N", "O",
     "P", "Q", "R", "S", "T", "U", "V", "W", "X", "Y", "Z",
     "0", "1", "2", "3", "4", "5", "6", "7", "8", "9"}

\* A bug: only the prefix of the account number is tested.
MatchesAccountNumberPrefixOnly(text) ==
    LET s == Chars(text)
    IN  Len(s) >= 2 /\ s[1] = "A" /\ s[2] = "-"

\* /^A-[A-Z0-9]{8}$/.test(config.accountNumber)
MatchesAccountNumber(text) ==
    LET s == Chars(text)
    IN  /\ Len(s) = 10
        /\ s[1] = "A" /\ s[2] = "-"
        /\ \A i \in 3 .. 10 : s[i] \in UpperCaseOrDigit

\* config.apiKey.startsWith('sk_')
StartsWithSk(text) ==
    LET s == Chars(text)
    IN  Len(s) >= 3 /\ s[1] = "s" /\ s[2] = "k" /\ s[3] = "_"

MalformedAccountNumbers ==
    {"a-aaaaaaa1", "A-AAAAAA1", "A-AAAAAAA12", "B-AAAAAAA1"}

\* What the parameter store holds under the account's config path: nothing,
\* a text that is not JSON, or a JSON object; emails counts the addresses of
\* config.emails that pass the filter.
Parameters(a) ==
    {[kind |-> "missing"], [kind |-> "text"]}
    \cup [kind : {"json"}, apiKey : {"", "pk_live", "sk_live"},
          accountNumber : {"", a} \cup MalformedAccountNumbers,
          emails : 0 .. 1]

\* getAccountCredentials: the message it throws, or "" when it returns.
CredentialsError(parameter) ==
    IF parameter.kind = "missing" THEN ParameterNotFound
    ELSE IF parameter.kind = "text" THEN InvalidJson
    ELSE IF parameter.apiKey = "" THEN ApiKeyNotFound
    ELSE IF parameter.accountNumber = "" THEN AccountNumberNotFound
    ELSE IF ~StartsWithSk(parameter.apiKey) THEN InvalidApiKeyFormat
    ELSE IF ~MatchesAccountNumber(parameter.accountNumber)
    THEN InvalidAccountNumberFormat
    ELSE ""

\* getAccountCredentials returns or throws; up to await getState.
ResolveCredentials(r) ==
    /\ run[r].pc = "creds"
    /\ \E parameter \in Parameters(run[r].acct) :
         LET error == CredentialsError(parameter)
             rr == [run[r] EXCEPT !.parameter = parameter]
         IN  IF error = ""
             THEN Step(r, [rr EXCEPT !.pc = "read", !.credsOk = TRUE,
                                     !.emails = parameter.emails])
             ELSE Step(r, Finish(rr, respondError(error)))
    /\ UNCHANGED <<clock, store, remote, nextCode, sent, unsaved>>

----------------------------------------------------------------------------
(* Step 2: the state table is read *)

\* What the handler does with the record it read: stop, send the email that
\* is still owed, or go on to claim.
\* A bug (the force-send policy of older variants): a fresh record is emailed
\* again whether or not it was emailed before.
DecisionForceSend(existingState, now) ==
    IF HasValidVoucher(existingState, now) THEN "email_sent" ELSE "claim"

Decision(existingState, now) ==
    IF HasValidVoucher(existingState, now)
    THEN IF existingState.emailSent THEN "none" ELSE "email_sent"
    ELSE "claim"

\* A bug: the branch that sends the owed email answers with the skip response.
SuccessResponseSkipTag(rr) ==
    IF rr.path = "email_sent"
    THEN respond(200, TRUE, "none", rr.existing.voucherCode, FALSE)
    ELSE respond(200, TRUE, rr.path, rr.voucher.code, MarkSent(rr.state).emailSent)

\* The response of a run that took a success path (claimed,
\* recovered_existing, email_sent).
SuccessResponse(rr) ==
    IF rr.path = "email_sent"
    THEN respond(200, TRUE, "email_sent", rr.existing.voucherCode, FALSE)
    ELSE respond(200, TRUE, rr.path, rr.voucher.code, MarkSent(rr.state).emailSent)

\* A bug: the owed email is sent from a record built anew, as after a claim.
OwedEmailRebuilt(rr, existingState) ==
    LET voucher == [code |-> existingState.voucherCode,
                    barcode |-> existingState.barcode,
                    accountNumber |-> rr.acct]
    IN  [rr EXCEPT !.pc = "save", !.voucher = voucher,
                   !.state = buildState(rr.acct, voucher, rr.now),
                   !.path = "email_sent"]

\* Email not sent yet: the voucher is made of the stored code and barcode and
\* the record read goes to markSentAndEmail / markSentNoEmail as it is.
OwedEmail(rr, existingState) ==
    [rr EXCEPT !.pc = "save",
               !.voucher = [code |-> existingState.voucherCode,
                            barcode |-> existingState.barcode,
                            accountNumber |-> rr.acct],
               !.state = existingState,
               !.path = "email_sent"]

\* getState returns or throws, const now = Date.now(), and the branch on the
\* record; up to the next await (saveState or checkCaffeNeroOffer).
GetState(r) ==
    /\ run[r].pc = "read"
    /\ \/ Step(r, ReadFailed(run[r]))
       \/ LET existingState == store[run[r].acct]
              now == clock
              rr == [run[r] EXCEPT !.readOk = TRUE, !.existing = existingState,
                                   !.now = now]
              d == Decision(existingState, now)
          IN  IF d = "none"
              THEN Step(r, Finish(rr, withReason(
                                          respond(200, TRUE, "none",
                                                  existingState.voucherCode, FALSE),
                                          SkipReason)))
              ELSE IF d = "email_sent"
              THEN Step(r, OwedEmail(rr, existingState))
              ELSE Step(r, [rr EXCEPT !.pc = "offer"])
    /\ UNCHANGED <<clock, store, remote, nextCode, sent, unsaved>>

----------------------------------------------------------------------------
(* Step 3: the loyalty service *)

\* claimAbility.cannotClaimReason as the service reports it; "" is null.
RemoteReasons ==
    {"OUT_OF_STOCK", "MAX_CLAIMS_PER_PERIOD_REACHED", "NOT_ELIGIBLE", ""}

\* const reason = offerStatus.cannotClaimReason || 'UNKNOWN'
ReasonOf(cannotClaimReason) ==
    IF cannotClaimReason = "" THEN "UNKNOWN" ELSE cannotClaimReason

\* A bug: recovery is tried for OUT_OF_STOCK only.
RecoverableOnlyOutOfStock(reason) == reason = "OUT_OF_STOCK"

\* reason === 'OUT_OF_STOCK' || reason === 'MAX_CLAIMS_PER_PERIOD_REACHED'
Recoverable(reason) ==
    reason = "OUT_OF_STOCK" \/ reason = "MAX_CLAIMS_PER_PERIOD_REACHED"

\* A bug: the body of the cannot_claim response leaves the reason out.
CannotClaimNoReason(reason) == respond(200, FALSE, "cannot_claim", 0, FALSE)

\* respond(200, { success: false, action: 'cannot_claim', reason, ... })
CannotClaim(reason) ==
    withReason(respond(200, FALSE, "cannot_claim", 0, FALSE), reason)

\* What checkCaffeNeroOffer returns: the offer is not in the benefits list,
\* it can be claimed, or it cannot and the service may say why.
OfferStatuses ==
    {[found |-> FALSE, canClaim |-> FALSE, cannotClaimReason |-> ""],
     [found |-> TRUE, canClaim |-> TRUE, cannotClaimReason |-> ""]}
    \cup {[found |-> TRUE, canClaim |-> FALSE, cannotClaimReason |-> raw] :
            raw \in RemoteReasons}

\* A bug: a run that found no offer writes a record all the same.
OfferNotFoundWrites(rr) ==
    [rr EXCEPT !.pc = "save",
               !.state = buildState(rr.acct, [code |-> 0, barcode |-> 0], rr.now)]

\* A bug: an offer that was not found is answered with the error response.
OfferNotFoundAsError(rr) == Finish(rr, respondError("Offer not found"))

\* respond(200, { success: false, action: 'offer_not_found', ... })
OfferNotFound(rr) ==
    Finish(rr, respond(200, FALSE, "offer_not_found", 0, FALSE))

\* A bug: the claim is attempted whenever the offer was found.
OnOfferStatusClaimsAnyFound(rr, offerStatus) ==
    LET rs == [rr EXCEPT !.offerReturned = TRUE,
                         !.found = offerStatus.found,
                         !.canClaim = offerStatus.canClaim]
    IN  IF ~offerStatus.found THEN OfferNotFound(rs)
        ELSE [rs EXCEPT !.pc = "claim"]

\* The handler's branches on offerStatus, up to its next await.
OnOfferStatus(rr, offerStatus) ==
    LET rs == [rr EXCEPT !.offerReturned = TRUE,
                         !.found = offerStatus.found,
                         !.canClaim = offerStatus.canClaim]
    IN  IF ~offerStatus.found THEN OfferNotFound(rs)
        ELSE IF offerStatus.canClaim THEN [rs EXCEPT !.pc = "claim"]
        ELSE LET reason == ReasonOf(offerStatus.cannotClaimReason)
                 rq == [rs EXCEPT !.reason = reason,
                                  !.cannotClaimReason = offerStatus.cannotClaimReason]
             IN  IF Recoverable(reason) THEN [rq EXCEPT !.pc = "fetch"]
                 ELSE Finish(rq, CannotClaim(reason))

\* checkCaffeNeroOffer returns or throws, and the branch on its result.
CheckOffer(r) ==
    /\ run[r].pc = "offer"
    /\ LET rr == [run[r] EXCEPT !.nOffer = @ + 1]
       IN  \/ \E error \in RemoteErrors : Step(r, RemoteFailed(rr, error))
           \/ \E offerStatus \in OfferStatuses :
                Step(r, OnOfferStatus(rr, offerStatus))
    /\ UNCHANGED <<clock, store, remote, nextCode, sent, unsaved>>

\* claimCaffeNero, first await: the claimOctoplusReward mutation.  On success
\* the service issues a new voucher, the newest of the account (the only one
\* the code reads: octoplusRewards.find(...).vouchers[0]).
ClaimReward(r) ==
    /\ run[r].pc = "claim"
    /\ LET rr == [run[r] EXCEPT !.nClaim = @ + 1]
           a == rr.acct
       IN  \/ /\ \E error \in RemoteErrors : Step(r, RemoteFailed(rr, error))
              /\ UNCHANGED <<remote, nextCode, unsaved>>
           \/ /\ nextCode <= MaxCodes
              /\ \E e \in IssuedExpiries :
                   remote' = [remote EXCEPT ![a] =
                                <<[code |-> nextCode,
                                   barcodeValue |-> BarcodeValue(nextCode),
                                   expiresAt |-> e]>>]
              /\ nextCode' = nextCode + 1
              /\ unsaved' = unsaved \cup {nextCode}
              /\ Step(r, [rr EXCEPT !.pc = "claimList", !.claimedCode = nextCode])
    /\ UNCHANGED <<clock, store, sent>>

\* What getAllClaimedOffers returns for the slug: the account's vouchers,
\* newest first, or nothing.
Listings(a) == {<<>>, remote[a]}

\* A bug: the missing voucher is passed over and the run reports the claim.
VoucherMissingReportsClaimed(rr) ==
    Finish(rr, respond(200, TRUE, "claimed", 0, FALSE))

\* if (!reward || reward.vouchers.length === 0) throw, which
\* the handler's catch turns into the 500 response.
VoucherMissing(rr) == Finish(rr, respondError(VoucherDetailsMissing))

\* claimCaffeNero, second await: the claimed rewards are listed and the first
\* voucher taken; then buildState.
ClaimList(r) ==
    /\ run[r].pc = "claimList"
    /\ LET rr == [run[r] EXCEPT !.nList = @ + 1]
       IN  \/ \E error \in RemoteErrors : Step(r, RemoteFailed(rr, error))
           \/ \E vouchers \in Listings(rr.acct) :
                IF vouchers = <<>>
                THEN Step(r, VoucherMissing([rr EXCEPT !.listed = "empty"]))
                ELSE LET voucher == VoucherInfo(Head(vouchers), rr.acct)
                     IN  Step(r, [rr EXCEPT
                                !.pc = "save",
                                !.listed = "voucher",
                                !.voucher = voucher,
                                !.state = buildState(rr.acct, voucher, clock),
                                !.path = "claimed"])
    /\ UNCHANGED <<clock, store, remote, nextCode, sent, unsaved>>

\* A bug: a listed voucher that has expired is reported as voucher_expired
\* whatever the reason.
NoVoucherActionExpiredFirst(reason, fetched) ==
    IF fetched THEN "voucher_expired"
    ELSE IF reason = "OUT_OF_STOCK" THEN "out_of_stock"
    ELSE "max_claims_no_voucher"

\* A bug: the two reasons' actions are swapped.
NoVoucherActionSwapped(reason, fetched) ==
    IF reason # "OUT_OF_STOCK" THEN "out_of_stock"
    ELSE IF fetched THEN "voucher_expired" ELSE "max_claims_no_voucher"

\* The action reported when no usable voucher can be recovered.
NoVoucherAction(reason, fetched) ==
    IF reason = "OUT_OF_STOCK" THEN "out_of_stock"
    ELSE IF fetched THEN "voucher_expired" ELSE "max_claims_no_voucher"

\* fetchLatestCaffeNeroVoucher returns or throws, the expiry check, buildState.
FetchLatest(r) ==
    /\ run[r].pc = "fetch"
    /\ LET rr == [run[r] EXCEPT !.nList = @ + 1]
       IN  \/ \E error \in RemoteErrors : Step(r, RemoteFailed(rr, error))
           \/ \E vouchers \in Listings(rr.acct) :
                IF vouchers = <<>>
                THEN Step(r, Finish([rr EXCEPT !.listed = "empty"], respond(200, FALSE,
                                 NoVoucherAction(rr.reason, FALSE), 0, FALSE)))
                ELSE LET voucher == VoucherInfo(Head(vouchers), rr.acct)
                         rv == [rr EXCEPT !.voucher = voucher,
                                          !.listed = "voucher",
                                          !.fetchedUnsaved = voucher.code \in unsaved]
                     IN  IF IsExpiredVoucher(voucher, rr.now)
                         THEN Step(r, Finish(rv, respond(200, FALSE,
                                 NoVoucherAction(rr.reason, TRUE), 0, FALSE)))
                         ELSE Step(r, [rv EXCEPT
                                 !.pc = "save",
                                 !.state = buildState(rr.acct, voucher, clock),
                                 !.path = "recovered_existing"])
    /\ UNCHANGED <<clock, store, remote, nextCode, sent, unsaved>>

----------------------------------------------------------------------------
(* markSentAndEmail / markSentNoEmail: save, then send *)

\* A bug: a failed write is only logged (as saveClaimState of the older state
\* service does) and the run goes on.
SaveFailedLogged(rr) ==
    IF rr.emails > 0 THEN [rr EXCEPT !.writeFailed = TRUE, !.pc = "send"]
    ELSE Finish([rr EXCEPT !.writeFailed = TRUE], SuccessResponse(rr))

\* saveState throws 'Failed to save account state', which the handler's catch
\* turns into the 500 response.
SaveFailed(rr) ==
    Finish([rr EXCEPT !.writeFailed = TRUE], respondError(SaveStateFailed))

\* A bug: the send is attempted whether or not an address is configured.
SavedAlwaysSends(rr, updated) == [rr EXCEPT !.nWriteOk = @ + 1, !.pc = "send"]

\* After a successful saveState: markSentAndEmail goes on to send,
\* markSentNoEmail returns.
Saved(rr, updated) ==
    LET rw == [rr EXCEPT !.nWriteOk = @ + 1]
    IN  IF rr.emails > 0 THEN [rw EXCEPT !.pc = "send"]
        ELSE Finish(rw, SuccessResponse(rr))

\* await saveState(updated)
SaveState(r) ==
    /\ run[r].pc = "save"
    /\ LET rr == [run[r] EXCEPT !.nWrite = @ + 1]
           updated == MarkSent(rr.state)
       IN  \/ /\ Step(r, SaveFailed(rr))
              /\ UNCHANGED <<store, unsaved>>
           \/ /\ store' = [store EXCEPT ![updated.accountNumber] = updated]
              /\ unsaved' = unsaved \ {updated.voucherCode}
              /\ Step(r, Saved(rr, updated))
    /\ UNCHANGED <<clock, remote, nextCode, sent>>

\* A bug: the send error propagates to the handler's catch.
EmailFailedThrows(rr) ==
    Finish([rr EXCEPT !.sendFailed = TRUE], respondError("Failed to send email"))

\* catch (emailError): logged, markSentAndEmail returns updated.
EmailFailed(rr) == Finish([rr EXCEPT !.sendFailed = TRUE], SuccessResponse(rr))

\* await sendVoucherEmail(credentials.emails, voucherWithNickname)
SendEmail(r) ==
    /\ run[r].pc = "send"
    /\ LET rr == [run[r] EXCEPT !.nSend = @ + 1]
       IN  \/ /\ Step(r, EmailFailed(rr))
              /\ UNCHANGED sent
           \/ /\ sent' = [sent EXCEPT ![rr.voucher.code] =
                            IF @ < MaxSent THEN @ + 1 ELSE @]
              /\ Step(r, Finish(rr, SuccessResponse(rr)))
    /\ UNCHANGED <<clock, store, remote, nextCode, unsaved>>

----------------------------------------------------------------------------
(* The environment *)

\* The execution-time ceiling ends the run between two awaits: no response.
Abort(r) ==
    /\ Active(run[r])
    /\ Step(r, [run[r] EXCEPT !.pc = "done", !.aborted = TRUE])
    /\ UNCHANGED <<clock, store, remote, nextCode, sent, unsaved>>

\* Time passes.
Tick ==
    /\ \E t \in Instants : t > clock /\ clock' = t
    /\ UNCHANGED <<handlerVars, cacheVars>>

----------------------------------------------------------------------------
(* The specification: runs of one account, one after the other *)

Accounts == {"A-AAAAAAA1"}

Runs == {"run"}

\* The handler's specification lets getAccountCredentials return whatever the
\* parameter service may hold (ResolveCredentials); the service and its cache
\* are specified on their own below and stay idle here.
Init == InitWith(Accounts, Runs) /\ ColdCache(Accounts)

Next ==
    \/ \E r \in Runs, a \in Accounts : Start(r, a)
    \/ \E r \in Runs : ResolveCredentials(r)
    \/ \E r \in Runs : GetState(r)
    \/ \E r \in Runs : CheckOffer(r)
    \/ \E r \in Runs : ClaimReward(r)
    \/ \E r \in Runs : ClaimList(r)
    \/ \E r \in Runs : FetchLatest(r)
    \/ \E r \in Runs : SaveState(r)
    \/ \E r \in Runs : SendEmail(r)
    \/ \E r \in Runs : Abort(r)
    \/ Tick

Spec == Init /\ [][Next]_vars

----------------------------------------------------------------------------
(* Runs of two accounts side by side *)

Accounts2 == {"A-AAAAAAA1", "A-BBBBBBB2"}

\* One execution context for each account.
Contexts2 == {<<"run1", "A-AAAAAAA1">>, <<"run2", "A-BBBBBBB2">>}

Runs2 == {c[1] : c \in Contexts2}

\* Neither account holds a voucher on the loyalty service yet; either may have
\* a record in the table.
PairInit ==
    /\ clock = FirstInstant
    /\ store \in [Accounts2 -> {Absent} \cup UNION {InitStates(a) : a \in Accounts2}]
    /\ \A a \in Accounts2 : Present(store[a]) => store[a].accountNumber = a
    /\ remote = [a \in Accounts2 |-> <<>>]
    /\ nextCode = 2
    /\ run = [r \in Runs2 |-> NewRun(CHOOSE a \in Accounts2 : TRUE, "idle", NoLast)]
    /\ sent = [c \in 1 .. MaxCodes |-> 0]
    /\ last = [a \in Accounts2 |-> NoLast]
    /\ unsaved = {}
    /\ ColdCache(Accounts2)

PairNext ==
    \/ \E c \in Contexts2 : StartBeside(c[1], c[2])
    \/ \E r \in Runs2 : ResolveCredentials(r)
    \/ \E r \in Runs2 : GetState(r)
    \/ \E r \in Runs2 : CheckOffer(r)
    \/ \E r \in Runs2 : ClaimReward(r)
    \/ \E r \in Runs2 : ClaimList(r)
    \/ \E r \in Runs2 : FetchLatest(r)
    \/ \E r \in Runs2 : SaveState(r)
    \/ \E r \in Runs2 : SendEmail(r)

\* Runs of two accounts, interleaved in any way.
PairSpec == PairInit /\ [][PairNext]_vars

----------------------------------------------------------------------------
(* Two invocations for one account that overlap *)

\* The handler is invoked for account a, once in execution context r, whatever
\* other runs, of the same account too, are under way: nothing in the handler
\* or in the table's reads and writes keeps two invocations apart.
StartOverlapping(r, a) ==
    /\ run[r].pc = "idle"
    /\ Invoke(r, a)

\* The account holds no voucher on the loyalty service yet and may have a
\* record in the table.
OverlapInit ==
    /\ clock = FirstInstant
    /\ store \in [Accounts -> {Absent} \cup UNION {InitStates(a) : a \in Accounts}]
    /\ remote = [a \in Accounts |-> <<>>]
    /\ nextCode = 2
    /\ run = [r \in Runs2 |-> NewRun(CHOOSE a \in Accounts : TRUE, "idle", NoLast)]
    /\ sent = [c \in 1 .. MaxCodes |-> 0]
    /\ last = [a \in Accounts |-> NoLast]
    /\ unsaved = {}
    /\ ColdCache(Accounts)

OverlapNext ==
    \/ \E r \in Runs2, a \in Accounts : StartOverlapping(r, a)
    \/ \E r \in Runs2 : ResolveCredentials(r)
    \/ \E r \in Runs2 : GetState(r)
    \/ \E r \in Runs2 : CheckOffer(r)
    \/ \E r \in Runs2 : ClaimReward(r)
    \/ \E r \in Runs2 : ClaimList(r)
    \/ \E r \in Runs2 : FetchLatest(r)
    \/ \E r \in Runs2 : SaveState(r)
    \/ \E r \in Runs2 : SendEmail(r)

\* Two invocations for the same account, interleaved in any way.
OverlapSpec == OverlapInit /\ [][OverlapNext]_vars

----------------------------------------------------------------------------
(* The parameter service: getParameter and its cache, getAccountCredentials *)

CACHE_TTL_MS == 5 * 60 * 1000

\* The instants of the calls to the service: a first one, and those around
\* one TTL and at two TTLs after it.
CacheInstants ==
    { FirstInstant + o :
        o \in {0, 1, CACHE_TTL_MS - 1, CACHE_TTL_MS, CACHE_TTL_MS + 1,
               2 * CACHE_TTL_MS} }

\* \s
Whitespace == {" "}

\* String.prototype.trim
Trim(e) ==
    LET kept == {i \in 1 .. Len(e) : e[i] \notin Whitespace}
        first == CHOOSE i \in kept : \A k \in kept : i <= k
        end == CHOOSE i \in kept : \A k \in kept : k <= i
    IN  IF kept = {} THEN <<>> ELSE SubSeq(e, first, end)

\* A bug: the pattern asks for no dot after the @.
emailRegexTestNoDot(e) ==
    \E i \in 1 .. Len(e) :
        /\ e[i] = "@" /\ 1 < i /\ i < Len(e)
        /\ \A k \in (1 .. Len(e)) \ {i} : e[k] \notin Whitespace \cup {"@"}

\* /^[^\s@]+@[^\s@]+\.[^\s@]+$/.test(e)
emailRegexTest(e) ==
    \E i \in 1 .. Len(e), j \in 1 .. Len(e) :
        /\ e[i] = "@" /\ e[j] = "."
        /\ 1 < i /\ i + 1 < j /\ j < Len(e)
        /\ \A k \in (1 .. Len(e)) \ {i} : e[k] \notin Whitespace \cup {"@"}

\* (config.emails || []).map(e => e.trim())
\*     .filter(e => e.length > 0 && emailRegex.test(e))
validEmails(emails) ==
    LET list == IF emails.absent THEN <<>> ELSE emails.list
        trimmed == [i \in 1 .. Len(list) |-> Trim(list[i])]
        keep(e) == Len(e) > 0 /\ emailRegexTest(e)
    IN  SelectSeq(trimmed, keep)

\* A bug: an entry is served up to and including the TTL.
CacheServesInclusive(cached, now) ==
    cached.cached /\ now - cached.timestamp <= CACHE_TTL_MS

\* cached && Date.now() - cached.timestamp < CACHE_TTL_MS
CacheServes(cached, now) ==
    cached.cached /\ now - cached.timestamp < CACHE_TTL_MS

\* getParameter with the cache `cache`, at `now`, the parameter store holding
\* `stored` under the path: the value returned or the error thrown, and the
\* cache afterwards.
getParameter(cache, a, now, stored) ==
    IF CacheServes(cache[a], now)
    THEN [hit |-> TRUE, fetched |-> FALSE, error |-> "",
          value |-> cache[a].value, cache |-> cache]
    ELSE IF stored.kind = "missing"
    THEN [hit |-> FALSE, fetched |-> TRUE, error |-> ParameterNotFound,
          value |-> stored, cache |-> cache]
    ELSE [hit |-> FALSE, fetched |-> TRUE, error |-> "",
          value |-> stored,
          cache |-> [cache EXCEPT ![a] =
                       [cached |-> TRUE, value |-> stored, timestamp |-> now]]]

\* getAccountCredentials(a): getParameter, then JSON.parse, the validation and
\* the filter of the addresses.
GetAccountCredentials(a) ==
    /\ LET got == getParameter(parameterCache, a, clock, ssm[a])
           error == IF got.error # "" THEN got.error
                    ELSE CredentialsError(got.value)
       IN  /\ parameterCache' = got.cache
           /\ lookup' = [key |-> a, hit |-> got.hit, fetched |-> got.fetched,
                         before |-> parameterCache[a], value |-> got.value,
                         error |-> error,
                         emails |-> IF error = "" THEN validEmails(got.value.emails)
                                    ELSE <<>>]
    /\ UNCHANGED <<clock, ssm, handlerVars>>

Cleared == [key |-> "", op |-> "clearParameterCache"]

\* parameterCache.clear()
ClearParameterCache ==
    /\ parameterCache' = [a \in DOMAIN parameterCache |-> NoEntry]
    /\ lookup' = Cleared
    /\ UNCHANGED <<clock, ssm, handlerVars>>

PlainAddress == <<"u", "@", "d", ".", "c">>

PaddedAddress == <<" ", "v", "@", "d", ".", "c", " ">>

\* The addresses a stored configuration may list: well-formed, padded with
\* spaces, empty, blank, and malformed in the ways the pattern rejects.
RawAddresses ==
    {PlainAddress, PaddedAddress, <<>>, <<" ", " ">>,
     <<"u", "@", "d">>,
     <<"u", " ", "@", "d", ".", "c">>,
     <<"u", "@", "@", "d", ".", "c">>,
     <<"@", "d", ".", "c">>,
     <<"u", "@", ".", "c">>,
     <<"u", "@", "d", ".">>}

Config(apiKey, accountNumber, emails) ==
    [kind |-> "json", apiKey |-> apiKey, accountNumber |-> accountNumber,
     emails |-> emails]

\* What an operator may put under the config path of account a.
CacheParameters(a) ==
    {[kind |-> "missing"], [kind |-> "text"],
     Config("pk_live", a, NoEmails),
     Config("sk_live", "A-AAAAAA1", NoEmails),
     Config("sk_live", a, NoEmails),
     Config("sk_live", a, EmailList(<<PlainAddress>>))}

\* The record under the config path is created, changed or deleted.
PutParameter(a) ==
    /\ \E stored \in CacheParameters(a) : ssm' = [ssm EXCEPT ![a] = stored]
    /\ ssm' # ssm
    /\ lookup' = NoLookup
    /\ UNCHANGED <<clock, parameterCache, handlerVars>>

\* Time passes in the warm execution context.
CacheTick ==
    /\ \E t \in CacheInstants : t > clock /\ clock' = t
    /\ lookup' = NoLookup
    /\ UNCHANGED <<parameterCache, ssm, handlerVars>>

\* The handler's variables, idle.
Idle(A, R) ==
    /\ clock = FirstInstant
    /\ store = [a \in A |-> Absent]
    /\ remote = [a \in A |-> <<>>]
    /\ nextCode = 1
    /\ run = [r \in R |-> NewRun(CHOOSE a \in A : TRUE, "idle", NoLast)]
    /\ sent = [c \in 1 .. MaxCodes |-> 0]
    /\ last = [a \in A |-> NoLast]
    /\ unsaved = {}

CacheInit == Idle(Accounts, Runs) /\ ColdCache(Accounts)

CacheNext ==
    \/ \E a \in Accounts : GetAccountCredentials(a)
    \/ \E a \in Accounts : PutParameter(a)
    \/ ClearParameterCache
    \/ CacheTick

\* The parameter service in one warm execution context.
CacheSpec == CacheInit /\ [][CacheNext]_vars

\* The lists of addresses a configuration may hold.
EmailInputs ==
    {NoEmails}
    \cup {EmailList(list) :
            list \in UNION {[1 .. n -> RawAddresses] : n \in 0 .. MaxAddresses}}

EmailInit ==
    /\ Idle(Accounts, Runs)
    /\ parameterCache = [a \in Accounts |-> NoEntry]
    /\ ssm \in [Accounts -> UNION {{Config("sk_live", a, emails) :
                                       emails \in EmailInputs} : a \in Accounts}]
    /\ lookup = NoLookup

EmailNext == \E a \in Accounts : GetAccountCredentials(a)

\* getAccountCredentials called on configurations with every list of addresses.
EmailSpec == EmailInit /\ [][EmailNext]_vars

----------------------------------------------------------------------------
(* The state service's date functions, and its weekly-reset variant *)

\* lastSaturday.setUTCHours(9, 0, 0, 0)
ResetHour == 9

ResetTimeOfDay == ResetHour * (MsPerDay \div 24)

\* The times of day tried: midnight and the millisecond after and before it,
\* the reset time and the milliseconds around it, and noon.
DayOffsets ==
    {0, 1, ResetTimeOfDay - 1, ResetTimeOfDay, ResetTimeOfDay + 1,
     MsPerDay \div 2, MsPerDay - 1}

\* The instants the date functions are applied at, from Sunday 1970-01-04 on.
DateInstants ==
    { FirstInstant + d * MsPerDay + o :
        d \in 0 .. (NumDateDays - 1), o \in DayOffsets }

\* The call `op` of the state service was just made.
Applied(op) == "op" \in DOMAIN lookup /\ lookup.op = op

\* Time passes between two calls.
DateTick ==
    /\ \E t \in DateInstants : t > clock /\ clock' = t
    /\ lookup' = NoLookup
    /\ UNCHANGED <<parameterCache, ssm, handlerVars>>

\* getNextSundayMidnight(), fromMs defaulting to Date.now()
GetNextSundayMidnight ==
    /\ lookup' = [key |-> "", op |-> "getNextSundayMidnight", fromMs |-> clock,
                  result |-> getNextSundayMidnight(clock)]
    /\ UNCHANGED <<clock, parameterCache, ssm, handlerVars>>

SundayInit == Idle(Accounts, Runs) /\ ColdCache(Accounts)

SundayNext == GetNextSundayMidnight \/ DateTick

\* getNextSundayMidnight applied at every instant of DateInstants.
SundaySpec == SundayInit /\ [][SundayNext]_vars

\* A bug: on a Saturday before the reset time the boundary of the same day,
\* still ahead, is returned.
getMostRecentSaturdayAt9AMSameDay(now) ==
    LET currentDay == getUTCDay(now)
        daysSinceSaturday == IF currentDay = 6 THEN 0 ELSE (currentDay + 1) % 7
    IN  ((now \div MsPerDay) - daysSinceSaturday) * MsPerDay + ResetTimeOfDay

\* getMostRecentSaturdayAt9AM with new Date() = now
getMostRecentSaturdayAt9AM(now) ==
    LET currentDay == getUTCDay(now)
        daysSinceSaturday == IF currentDay = 6 THEN 0 ELSE (currentDay + 1) % 7
        \* setUTCDate(getUTCDate() - daysSinceSaturday); setUTCHours(9, 0, 0, 0)
        lastSaturday ==
            ((now \div MsPerDay) - daysSinceSaturday) * MsPerDay + ResetTimeOfDay
    IN  IF now < lastSaturday THEN lastSaturday - 7 * MsPerDay ELSE lastSaturday

\* The record of the weekly-reset variant (types.ts AccountState) that
\* saveClaimState writes at `now`.
ClaimState(accountNumber, voucherCode, now) ==
    [accountNumber |-> accountNumber, voucherCode |-> voucherCode,
     lastClaimedAt |-> now,
     ttl |-> (now \div MsPerSecond) + TtlDays * 24 * 60 * 60]

\* The record clearAccountState writes at `now`.
ClearedState(accountNumber, now) ==
    [accountNumber |-> accountNumber, lastClaimedAt |-> 0,
     ttl |-> (now \div MsPerSecond) + 60]

\* shouldSkipAccount, the record read being `state` and new Date() = now
shouldSkipAccount(state, now) ==
    IF state = Absent \/ state.lastClaimedAt = 0 THEN FALSE
    ELSE state.lastClaimedAt > getMostRecentSaturdayAt9AM(now)

\* saveClaimState(a, voucherCode); a failed write is logged and changes
\* nothing.
SaveClaimState(a) ==
    /\ store' = [store EXCEPT ![a] = ClaimState(a, 1, clock)]
    /\ lookup' = NoLookup
    /\ UNCHANGED <<clock, remote, nextCode, run, sent, last, unsaved,
                   parameterCache, ssm>>

\* clearAccountState(a)
ClearAccountState(a) ==
    /\ store' = [store EXCEPT ![a] = ClearedState(a, clock)]
    /\ lookup' = NoLookup
    /\ UNCHANGED <<clock, remote, nextCode, run, sent, last, unsaved,
                   parameterCache, ssm>>

\* shouldSkipAccount(a): getAccountState returns the record or throws; then
\* the reset boundary is computed and compared.
ShouldSkipAccount(a) ==
    /\ \/ lookup' = [key |-> a, op |-> "shouldSkipAccount", threw |-> TRUE,
                     state |-> store[a], now |-> clock,
                     resetBoundary |-> 0, result |-> FALSE]
       \/ lookup' = [key |-> a, op |-> "shouldSkipAccount", threw |-> FALSE,
                     state |-> store[a], now |-> clock,
                     resetBoundary |-> getMostRecentSaturdayAt9AM(clock),
                     result |-> shouldSkipAccount(store[a], clock)]
    /\ UNCHANGED <<clock, parameterCache, ssm, handlerVars>>

WeeklyInit == Idle(Accounts, Runs) /\ ColdCache(Accounts)

WeeklyNext ==
    \/ \E a \in Accounts : SaveClaimState(a)
    \/ \E a \in Accounts : ClearAccountState(a)
    \/ \E a \in Accounts : ShouldSkipAccount(a)
    \/ DateTick

\* The weekly-reset variant of the state service: claims saved, records
\* cleared and shouldSkipAccount asked as time passes.
WeeklySpec == WeeklyInit /\ [][WeeklyNext]_vars

----------------------------------------------------------------------------
(* Claims *)

\* A success path of the handler
SuccessPaths == {"claimed", "recovered_existing", "email_sent"}

\* The run made no loyalty-API call, no state write and no email send.
Untouched(rr) ==
    /\ rr.nOffer = 0 /\ rr.nClaim = 0 /\ rr.nList = 0
    /\ rr.nWrite = 0 /\ rr.nSend = 0

\* C1 (as claimed): over any sequence of runs for one account, at most one
\* email is delivered for any voucher code.
C1_AtMostOneEmailPerCode ==
    \A c \in DOMAIN sent : sent[c] <= 1

\* C2: once the state read succeeded, the run ends with action 'none' if and
\* only if a record exists, its expiresAt is strictly greater than now and its
\* emailSent is true.
C2_SkipIffFreshAndEmailed ==
    \A r \in DOMAIN run :
        (run[r].credsOk /\ run[r].readOk) =>
            (run[r].resp.action = "none"
               <=> /\ Present(run[r].existing)
                   /\ run[r].existing.expiresAt > run[r].now
                   /\ run[r].existing.emailSent)

C2_Witness ==
    \E r \in DOMAIN run :
        /\ run[r].pc = "done" /\ run[r].readOk
        /\ run[r].resp.action = "none"
        /\ run[r].existing.expiresAt > run[r].now

\* C3: a run that ends in Skip issued no offer-status query, no claim, no
\* voucher listing, no state write and no email send.
C3_SkipTouchesNothing ==
    \A r \in DOMAIN run :
        run[r].resp.action = "none" => Untouched(run[r])

C3_Witness ==
    \E r \in DOMAIN run :
        /\ run[r].pc = "done" /\ run[r].resp.action = "none"
        /\ run[r].resp.statusCode = 200
        /\ run[r].existing.emailSent

\* C4: in the persisted record of an account, emailSent never goes from true
\* to false while voucherCode stays the same.
C4_EmailSentNeverRegresses ==
    [][\A a \in DOMAIN store :
          (/\ Present(store[a]) /\ store[a].emailSent
           /\ Present(store'[a])
           /\ store'[a].voucherCode = store[a].voucherCode)
          => store'[a].emailSent]_vars

\* A run overwrote an emailed record with a record of the same voucher code.
C4_Witness ==
    \E r \in DOMAIN run :
        /\ run[r].nWriteOk = 1
        /\ Present(run[r].existing) /\ run[r].existing.emailSent
        /\ run[r].existing.voucherCode = run[r].voucher.code
        /\ store[run[r].acct].voucherCode = run[r].voucher.code
        /\ store[run[r].acct].claimedAt > run[r].existing.claimedAt

\* C5: every record the handler hands to saveState, and every record of the
\* table, has expiresAt strictly greater than claimedAt.
C5_ExpiresAfterClaimed ==
    /\ \A r \in DOMAIN run :
          run[r].nWrite > 0 => run[r].state.expiresAt > run[r].state.claimedAt
    /\ \A a \in DOMAIN store :
          Present(store[a]) => store[a].expiresAt > store[a].claimedAt

\* A record of a voucher claimed at exactly Sunday 00:00:00.000 UTC, later
\* than the first instant, was persisted.
C5_Witness ==
    \E r \in DOMAIN run :
        /\ run[r].nWriteOk = 1 /\ run[r].path = "claimed"
        /\ store[run[r].acct].claimedAt > FirstInstant
        /\ store[run[r].acct].claimedAt % MsPerDay = 0
        /\ getUTCDay(store[run[r].acct].claimedAt) = 0

\* C6: a run that follows a run of the same account that ended Claimed or
\* RecoveredExisting, and reads the state, finds the record persisted with
\* emailSent = true; if its now is before the record's expiresAt it ends Skip
\* and makes no call, no state write and no email.
C6_SecondRunSkips ==
    \A r \in DOMAIN run :
        (/\ run[r].prev.action \in {"claimed", "recovered_existing"}
         /\ run[r].readOk)
        => /\ Present(run[r].existing)
           /\ run[r].existing.emailSent
           /\ run[r].now < run[r].existing.expiresAt
                => /\ run[r].pc = "done"
                   /\ run[r].resp.statusCode = 200
                   /\ run[r].resp.action = "none"
                   /\ Untouched(run[r])

C6_Witness ==
    \E r \in DOMAIN run :
        /\ run[r].prev.action = "claimed"
        /\ run[r].pc = "done" /\ run[r].resp.action = "none"

\* C7: an email send is attempted only after the run's state write completed
\* successfully, and the record is in the table when the send starts.
C7_WriteBeforeSend ==
    \A r \in DOMAIN run :
        (run[r].pc = "send" \/ run[r].nSend > 0)
        => /\ run[r].nWriteOk = 1
           /\ ~run[r].writeFailed
           /\ run[r].path \in SuccessPaths
           /\ store[run[r].acct].voucherCode = run[r].voucher.code
           /\ store[run[r].acct].emailSent

C7_Witness ==
    \E r \in DOMAIN run :
        /\ run[r].nSend = 1 /\ run[r].path = "recovered_existing"
        /\ run[r].pc = "done"

\* C8: when the email send fails the run still answers 200 with success = true,
\* the action of its path and the voucher code, and the record stays persisted.
C8_SendFailureKeepsOutcome ==
    \A r \in DOMAIN run :
        run[r].sendFailed
        => /\ run[r].pc = "done"
           /\ run[r].resp.statusCode = 200
           /\ run[r].resp.success
           /\ run[r].path \in SuccessPaths
           /\ run[r].resp.action = run[r].path
           /\ run[r].resp.voucherCode = run[r].voucher.code
           /\ Present(store[run[r].acct])
           /\ store[run[r].acct].voucherCode = run[r].voucher.code
           /\ store[run[r].acct].barcode = run[r].voucher.barcode

C8_Witness ==
    \E r \in DOMAIN run :
        /\ run[r].sendFailed /\ run[r].path = "claimed"
        /\ run[r].resp.action = "claimed"

C11_VoucherMissingReported ==
    \A r \in DOMAIN run :
        /\ (run[r].claimedCode # 0 /\ run[r].listed = "empty")
           => /\ run[r].pc = "done" /\ ~run[r].aborted
              /\ run[r].canClaim
              /\ run[r].resp.statusCode = 500
              /\ ~run[r].resp.success
              /\ run[r].resp.error = VoucherDetailsMissing
              /\ run[r].nWrite = 0 /\ run[r].nSend = 0
              /\ store[run[r].acct] = run[r].existing
        /\ run[r].resp.error = VoucherDetailsMissing
           => run[r].claimedCode # 0 /\ run[r].listed = "empty"

C11_Witness ==
    \E r \in DOMAIN run :
        /\ run[r].pc = "done" /\ run[r].claimedCode # 0
        /\ run[r].listed = "empty"
        /\ run[r].claimedCode \in unsaved

\* The run claimed and was listed the voucher: with no fresh prior state,
\* canClaim = true, a successful claim and a listing whose first voucher is v.
ClaimedVoucher(rr) ==
    /\ rr.path = "claimed" /\ rr.claimedCode # 0 /\ rr.listed = "voucher"
    /\ rr.canClaim /\ ~HasValidVoucher(rr.existing, rr.now)

\* The run ran to its end: it was not aborted and its state write did not fail.
RanThrough(rr) == rr.pc = "done" /\ ~rr.aborted /\ ~rr.writeFailed

\* The table holds the record of v that the run built, marked as emailed,
\* expiring after the run's now.
PersistedFrom(rr, v) ==
    /\ store[rr.acct] = MarkSent(rr.state)
    /\ store[rr.acct].voucherCode = v.code
    /\ store[rr.acct].barcode = v.barcodeValue
    /\ store[rr.acct].expiresAt > rr.now
    /\ store[rr.acct].expiresAt > store[rr.acct].claimedAt

\* C12 (as claimed): a run that claimed and was listed v persists the record
\* of v, attempts the notification with v and ends Claimed.
C12_ClaimedAlwaysNotifies ==
    \A r \in DOMAIN run :
        (ClaimedVoucher(run[r]) /\ RanThrough(run[r]))
        => /\ PersistedFrom(run[r], Head(remote[run[r].acct]))
           /\ run[r].nSend = 1
           /\ run[r].resp.action = "claimed"

\* C12 (amended): a run that claimed and was listed v persists a record with
\* voucherCode = v.code, barcode = v.barcode and a future expiresAt and ends
\* Claimed (200, success = true, v.code); the notification is attempted, once
\* and with v, exactly when the account has an address configured.
C12_ClaimedPersistsAndNotifies ==
    \A r \in DOMAIN run :
        (ClaimedVoucher(run[r]) /\ RanThrough(run[r]))
        => LET v == Head(remote[run[r].acct])
           IN  /\ PersistedFrom(run[r], v)
               /\ run[r].voucher.code = v.code
               /\ run[r].nSend = (IF run[r].emails > 0 THEN 1 ELSE 0)
               /\ (run[r].nSend = 1 /\ ~run[r].sendFailed) => sent[v.code] > 0
               /\ run[r].resp.statusCode = 200 /\ run[r].resp.success
               /\ run[r].resp.action = "claimed"
               /\ run[r].resp.voucherCode = v.code

C12_Witness ==
    \E r \in DOMAIN run :
        /\ ClaimedVoucher(run[r]) /\ RanThrough(run[r])
        /\ ~Present(run[r].existing)
        /\ run[r].nSend = 1 /\ ~run[r].sendFailed

\* The service told the run that the offer cannot be claimed, for one of the
\* two reasons after which the handler looks for a voucher already claimed.
ToldRecoverable(rr) ==
    /\ rr.found /\ ~rr.canClaim
    /\ rr.cannotClaimReason \in {"OUT_OF_STOCK", "MAX_CLAIMS_PER_PERIOD_REACHED"}

\* The run was listed a most recent voucher that expires after its now.
ListedUnexpired(rr) ==
    /\ ToldRecoverable(rr) /\ rr.listed = "voucher"
    /\ rr.voucher.expiresAt.kind = "iso"
    /\ rr.voucher.expiresAt.ms > rr.now

\* C13 (as claimed): a run told OUT_OF_STOCK or MAX_CLAIMS_PER_PERIOD_REACHED
\* and listed an unexpired voucher persists its record, attempts the
\* notification with it and ends RecoveredExisting.
C13_RecoveryAlwaysNotifies ==
    \A r \in DOMAIN run :
        (ListedUnexpired(run[r]) /\ RanThrough(run[r]))
        => /\ PersistedFrom(run[r], Head(remote[run[r].acct]))
           /\ run[r].nSend = 1
           /\ run[r].resp.action = "recovered_existing"

\* C13 (amended): a run told OUT_OF_STOCK or MAX_CLAIMS_PER_PERIOD_REACHED
\* issues no claim and lists the claimed vouchers; listed an unexpired voucher
\* v it persists a record with v's code and barcode and ends RecoveredExisting
\* (200, success = true, v.code); the notification is attempted, once and with
\* v, exactly when the account has an address configured.
C13_RecoveryPersistsAndNotifies ==
    \A r \in DOMAIN run :
        /\ (ToldRecoverable(run[r]) /\ run[r].pc = "done" /\ ~run[r].aborted)
           => run[r].nClaim = 0 /\ run[r].nList = 1
        /\ (ListedUnexpired(run[r]) /\ RanThrough(run[r]))
           => LET v == Head(remote[run[r].acct])
              IN  /\ run[r].nClaim = 0
                  /\ PersistedFrom(run[r], v)
                  /\ run[r].voucher.code = v.code
                  /\ run[r].nSend = (IF run[r].emails > 0 THEN 1 ELSE 0)
                  /\ (run[r].nSend = 1 /\ ~run[r].sendFailed) => sent[v.code] > 0
                  /\ run[r].resp.statusCode = 200 /\ run[r].resp.success
                  /\ run[r].resp.action = "recovered_existing"
                  /\ run[r].resp.voucherCode = v.code

C13_Witness ==
    \E r \in DOMAIN run :
        /\ ListedUnexpired(run[r]) /\ RanThrough(run[r])
        /\ run[r].cannotClaimReason = "MAX_CLAIMS_PER_PERIOD_REACHED"
        /\ run[r].nSend = 1 /\ ~run[r].sendFailed

\* The action of a run that found no usable voucher, by the service's reason.
ExpectedAction(rr, forOutOfStock, otherwise) ==
    IF rr.cannotClaimReason = "OUT_OF_STOCK" THEN forOutOfStock ELSE otherwise

\* The run ended answering 200 with success = false and `action`, having
\* written no state and sent no email: the table is as the run read it.
EndedWithout(rr, action) ==
    /\ rr.pc = "done" /\ ~rr.aborted
    /\ rr.resp.statusCode = 200 /\ ~rr.resp.success
    /\ rr.resp.action = action
    /\ rr.resp.voucherCode = 0
    /\ rr.nWrite = 0 /\ rr.nSend = 0
    /\ store[rr.acct] = rr.existing

\* C14: a voucher listed for recovery whose expiresAt is at or before the
\* run's now is never written and never emailed; the run ends out_of_stock
\* when the reason was OUT_OF_STOCK and voucher_expired when it was
\* MAX_CLAIMS_PER_PERIOD_REACHED.
C14_ExpiredVoucherDiscarded ==
    \A r \in DOMAIN run :
        (/\ ToldRecoverable(run[r]) /\ run[r].listed = "voucher"
         /\ run[r].voucher.expiresAt.kind = "iso"
         /\ run[r].voucher.expiresAt.ms <= run[r].now)
        => EndedWithout(run[r],
               ExpectedAction(run[r], "out_of_stock", "voucher_expired"))

\* The voucher expires at the very instant of the run's now.
C14_Witness ==
    \E r \in DOMAIN run :
        /\ run[r].pc = "done" /\ run[r].listed = "voucher"
        /\ run[r].cannotClaimReason = "MAX_CLAIMS_PER_PERIOD_REACHED"
        /\ run[r].voucher.expiresAt.kind = "iso"
        /\ run[r].voucher.expiresAt.ms = run[r].now
        /\ run[r].resp.action = "voucher_expired"

\* C15: a run told OUT_OF_STOCK or MAX_CLAIMS_PER_PERIOD_REACHED whose listing
\* holds no voucher ends out_of_stock or max_claims_no_voucher respectively,
\* with status 200, success = false, no state write and no email.
C15_NoVoucherFound ==
    \A r \in DOMAIN run :
        (ToldRecoverable(run[r]) /\ run[r].listed = "empty")
        => EndedWithout(run[r],
               ExpectedAction(run[r], "out_of_stock", "max_claims_no_voucher"))

C15_Witness ==
    \E r \in DOMAIN run :
        /\ run[r].pc = "done" /\ run[r].listed = "empty"
        /\ run[r].cannotClaimReason = "MAX_CLAIMS_PER_PERIOD_REACHED"
        /\ run[r].resp.action = "max_claims_no_voucher"

\* The run was told OUT_OF_STOCK and found no voucher to recover: none
\* listed, or one without an expiry or with an expiry at or before now.
OutOfStockNothingToRecover(rr) ==
    /\ rr.found /\ ~rr.canClaim /\ rr.cannotClaimReason = "OUT_OF_STOCK"
    /\ \/ rr.listed = "empty"
       \/ /\ rr.listed = "voucher"
          /\ \/ rr.voucher.expiresAt.kind = "absent"
             \/ /\ rr.voucher.expiresAt.kind = "iso"
                /\ rr.voucher.expiresAt.ms <= rr.now

\* C16: a run that is told OUT_OF_STOCK and finds no voucher to recover ends
\* out_of_stock and leaves the table as it read it; the table changes only
\* while a run is under way; so the run that follows one that ended
\* out_of_stock finds no fresh record, asks the service again and, while the
\* service answers the same, ends out_of_stock again.
C16_OutOfStockRepeats ==
    /\ [](\A r \in DOMAIN run :
            /\ OutOfStockNothingToRecover(run[r])
               => EndedWithout(run[r], "out_of_stock")
            /\ (run[r].prev.action = "out_of_stock" /\ run[r].readOk)
               => /\ ~HasValidVoucher(run[r].existing, run[r].now)
                  /\ run[r].resp.action \notin {"none", "email_sent"}
                  /\ (run[r].pc = "done" /\ ~run[r].aborted) => run[r].nOffer = 1)
    /\ [][(\A q \in DOMAIN run : ~Active(run[q])) => store' = store]_vars

\* Two runs in a row ended out_of_stock, the second at a later instant and
\* after listing an expired voucher.
C16_Witness ==
    \E r \in DOMAIN run :
        /\ run[r].prev.action = "out_of_stock"
        /\ run[r].pc = "done" /\ run[r].resp.action = "out_of_stock"
        /\ run[r].listed = "voucher"
        /\ run[r].now > FirstInstant

\* C17: a run told that the offer cannot be claimed for a reason other than
\* OUT_OF_STOCK and MAX_CLAIMS_PER_PERIOD_REACHED ends cannot_claim with status
\* 200, success = false and the reason as the service gave it ('UNKNOWN' when
\* it gave none), having issued no claim, no listing, no write and no email.
C17_CannotClaimCarriesReason ==
    \A r \in DOMAIN run :
        (/\ run[r].offerReturned /\ run[r].found /\ ~run[r].canClaim
         /\ ~ToldRecoverable(run[r]))
        => /\ EndedWithout(run[r], "cannot_claim")
           /\ run[r].resp.reason =
                (IF run[r].cannotClaimReason = "" THEN "UNKNOWN"
                 ELSE run[r].cannotClaimReason)
           /\ run[r].nOffer = 1
           /\ run[r].nClaim = 0 /\ run[r].nList = 0

\* The service gave no reason.
C17_Witness ==
    \E r \in DOMAIN run :
        /\ run[r].pc = "done" /\ run[r].offerReturned /\ run[r].found
        /\ run[r].cannotClaimReason = ""  /\ ~run[r].canClaim
        /\ run[r].resp.reason = "UNKNOWN"

\* C18: a run whose offer-status query reports found = false ends
\* offer_not_found with status 200 and success = false, having issued no
\* claim, no listing, no write and no email.
C18_OfferNotFound ==
    \A r \in DOMAIN run :
        (run[r].offerReturned /\ ~run[r].found)
        => /\ EndedWithout(run[r], "offer_not_found")
           /\ run[r].resp.error = ""
           /\ run[r].nOffer = 1
           /\ run[r].nClaim = 0 /\ run[r].nList = 0

C18_Witness ==
    \E r \in DOMAIN run :
        /\ run[r].pc = "done" /\ run[r].offerReturned /\ ~run[r].found
        /\ run[r].resp.action = "offer_not_found"

\* C19: a claim mutation is issued only by a run whose offer-status query has
\* returned found = true and canClaim = true, and at most once.
C19_ClaimOnlyAfterCanClaim ==
    [][\A r \in DOMAIN run :
          run'[r].nClaim > run[r].nClaim
          => /\ run[r].nOffer = 1 /\ run[r].offerReturned
             /\ run[r].found /\ run[r].canClaim
             /\ run[r].nClaim = 0
             /\ run'[r].acct = run[r].acct]_vars

C19_Witness ==
    \E r \in DOMAIN run :
        /\ run[r].nClaim = 1 /\ run[r].nOffer = 1
        /\ run[r].canClaim /\ run[r].claimedCode # 0

\* The stored configuration is not one getAccountCredentials accepts.
Defective(parameter) ==
    \/ parameter.kind \in {"missing", "text"}
    \/ /\ parameter.kind = "json"
       /\ \/ parameter.apiKey \in {"", "pk_live"}
          \/ parameter.accountNumber \in {""} \cup MalformedAccountNumbers

\* The event named no account: the run ended before any configuration was
\* fetched.
EventWithoutAccount(rr) ==
    rr.pc = "done" /\ ~rr.aborted /\ rr.parameter.kind = ""

\* C20: a run whose event names no account, or whose stored configuration is
\* missing, not JSON, without apiKey or accountNumber, with an apiKey that does
\* not start with 'sk_' or an account number that does not match
\* A-[A-Z0-9]{8}, ends with status 500 having made no loyalty-API call, no
\* state read or write and no email send.
C20_CredentialFailure ==
    \A r \in DOMAIN run :
        (EventWithoutAccount(run[r]) \/ Defective(run[r].parameter))
        => /\ run[r].pc = "done" /\ ~run[r].aborted
           /\ run[r].resp.statusCode = 500 /\ ~run[r].resp.success
           /\ run[r].resp.error \in
                {MissingAccountNumber, ParameterNotFound, InvalidJson,
                 ApiKeyNotFound, AccountNumberNotFound, InvalidApiKeyFormat,
                 InvalidAccountNumberFormat}
           /\ ~run[r].credsOk /\ ~run[r].readOk
           /\ run[r].existing = Absent
           /\ Untouched(run[r])

\* The account number of the configuration is one character short.
C20_Witness ==
    \E r \in DOMAIN run :
        /\ run[r].pc = "done" /\ run[r].parameter.kind = "json"
        /\ run[r].parameter.apiKey = "sk_live"
        /\ run[r].parameter.accountNumber = "A-AAAAAA1"
        /\ run[r].resp.error = InvalidAccountNumberFormat

\* C21: a run whose state read fails ends with status 500 having made no
\* loyalty-API call, no state write and no email; a run whose read finds no
\* record goes on to ask the loyalty service.
C21_ReadFailureIsFatal ==
    \A r \in DOMAIN run :
        /\ run[r].readFailed
           => /\ run[r].pc = "done" /\ ~run[r].aborted
              /\ run[r].resp.statusCode = 500 /\ ~run[r].resp.success
              /\ run[r].resp.error = FetchStateFailed
              /\ ~run[r].readOk
              /\ Untouched(run[r])
        /\ (run[r].readOk /\ ~Present(run[r].existing))
           => /\ run[r].resp.action \notin {"none", "email_sent"}
              /\ (run[r].pc = "done" /\ ~run[r].aborted) => run[r].nOffer = 1

\* A run's read failed; another run found no record and claimed.
C21_Witness ==
    \E r \in DOMAIN run :
        /\ run[r].pc = "done" /\ run[r].readFailed
        /\ run[r].prev.action = "claimed"

\* An exception was raised under the handler's try block: the event named no
\* account, the credentials were rejected, the state read or write failed, a
\* loyalty request failed or the claimed voucher was not listed.
Threw(rr) ==
    \/ EventWithoutAccount(rr)
    \/ Defective(rr.parameter)
    \/ rr.readFailed \/ rr.writeFailed
    \/ rr.nOffer > 0 /\ ~rr.offerReturned
    \/ rr.nClaim > 0 /\ rr.claimedCode = 0
    \/ rr.nList > 0 /\ rr.listed = ""
    \/ rr.claimedCode # 0 /\ rr.listed = "empty"

\* C22: every run that is not cut short returns a response; its status is 200
\* exactly when it reached one of the handler's outcomes and 500 exactly when
\* an exception was raised during the run.
C22_AlwaysResponds ==
    \A r \in DOMAIN run :
        (run[r].pc = "done" /\ ~run[r].aborted)
        => /\ run[r].resp.statusCode \in {200, 500}
           /\ run[r].resp.statusCode = 200
                <=> (run[r].resp.action \in Actions200 /\ run[r].resp.error = "")
           /\ run[r].resp.statusCode = 500
                <=> (run[r].resp.action = NoAction /\ run[r].resp.error # "")
           /\ run[r].resp.statusCode = 500 <=> Threw(run[r])

\* The email send failed and the response is 200 all the same.
C22_Witness ==
    \E r \in DOMAIN run :
        /\ run[r].pc = "done" /\ ~run[r].aborted
        /\ run[r].sendFailed /\ run[r].resp.statusCode = 200
        /\ run[r].prev.statusCode = 500

\* C23: a run issues at most one offer-status query, one claim mutation, one
\* claimed-voucher listing, one state write and one email send.
C23_NoRetries ==
    \A r \in DOMAIN run :
        /\ run[r].nOffer <= 1 /\ run[r].nClaim <= 1 /\ run[r].nList <= 1
        /\ run[r].nWrite <= 1 /\ run[r].nSend <= 1

\* A run whose listing failed after its claim ended without asking again.
C23_Witness ==
    \E r \in DOMAIN run :
        /\ run[r].pc = "done" /\ ~run[r].aborted
        /\ run[r].nClaim = 1 /\ run[r].claimedCode # 0
        /\ run[r].nList = 1 /\ run[r].listed = ""

\* C25: the record of an account changes only in the successful state write
\* of a run on the claimed, recovered_existing or email_sent path, which puts
\* a record there; a run that ends otherwise has written nothing, a run that
\* answers one of the three has written once, and no step removes a record.
C25_StoreFrame ==
    /\ [](\A r \in DOMAIN run :
            /\ run[r].nWriteOk > 0 => run[r].path \in SuccessPaths
            /\ (run[r].pc = "done" /\ ~run[r].aborted)
               => (run[r].nWriteOk = 1 <=> run[r].resp.action \in SuccessPaths))
    /\ [][\A a \in DOMAIN store :
            store'[a] # store[a]
            => /\ Present(store'[a])
               /\ \E r \in DOMAIN run :
                    /\ run[r].acct = a /\ run[r].pc = "save"
                    /\ run[r].path \in SuccessPaths
                    /\ run'[r].nWriteOk = 1
                    /\ store'[a] = MarkSent(run[r].state)]_vars

\* A run on the email_sent path overwrote the record.
C25_Witness ==
    \E r \in DOMAIN run :
        /\ run[r].pc = "done" /\ run[r].resp.action = "email_sent"
        /\ run[r].nWriteOk = 1
        /\ ~run[r].existing.emailSent /\ store[run[r].acct].emailSent

\* The run built a record for a fresh claim or a recovery.
BuiltRecord(rr) ==
    rr.path \in {"claimed", "recovered_existing"} /\ Present(rr.state)

C27_MissedEmailNotRetried ==
    \A r \in DOMAIN run :
        /\ Missed(run[r])
           => /\ run[r].pc = "done"
              /\ store[run[r].acct] = MarkSent(run[r].state)
              /\ store[run[r].acct].emailSent
              /\ store[run[r].acct].voucherCode = run[r].voucher.code
        /\ (/\ run[r].prev.missed # 0 /\ run[r].readOk
            /\ Present(run[r].existing)
            /\ run[r].existing.expiresAt > run[r].now)
           => /\ run[r].existing.voucherCode = run[r].prev.missed
              /\ run[r].existing.emailSent
              /\ run[r].pc = "done"
              /\ run[r].resp.action = "none"
              /\ Untouched(run[r])

\* The second run after the missed email skips as well, the email of the
\* voucher still undelivered.
C27_Witness ==
    \E r \in DOMAIN run :
        /\ run[r].prev.missed # 0 /\ run[r].prev.action = "none"
        /\ run[r].pc = "done" /\ run[r].resp.action = "none"
        /\ sent[run[r].prev.missed] = 0

\* A call of getAccountCredentials was just made.
Called == lookup.key # ""

\* C28: a call made less than CACHE_TTL_MS after the entry was stored is served
\* the cached value without a remote fetch and leaves the entry alone; a call
\* with no entry, or at or after CACHE_TTL_MS, fetches and, the parameter
\* having a value, stores it with the time of the call; clearParameterCache
\* leaves no entry.
C28_CacheServesWithinTtl ==
    /\ lookup = Cleared
       => \A a \in DOMAIN parameterCache : parameterCache[a] = NoEntry
    /\ Called
       => LET a == lookup.key
              before == lookup.before
              young == before.cached /\ clock - before.timestamp < CACHE_TTL_MS
          IN  /\ young
                 => /\ lookup.hit /\ ~lookup.fetched
                    /\ lookup.value = before.value
                    /\ parameterCache[a] = before
              /\ ~young
                 => /\ lookup.fetched /\ ~lookup.hit
                    /\ lookup.value = ssm[a]
                    /\ ssm[a].kind # "missing"
                       => parameterCache[a] =
                            [cached |-> TRUE, value |-> ssm[a], timestamp |-> clock]
                    /\ ssm[a].kind = "missing"
                       => parameterCache[a] = before

\* A call exactly CACHE_TTL_MS after the entry was stored fetched the value
\* the record had been changed to.
C28_Witness ==
    /\ Called /\ lookup.before.cached
    /\ clock - lookup.before.timestamp = CACHE_TTL_MS
    /\ lookup.fetched
    /\ lookup.value # lookup.before.value
    /\ parameterCache[lookup.key].timestamp = clock

\* C29 (as claimed): a call made when the record under the config path is one
\* getAccountCredentials accepts succeeds, whatever calls failed before it.
C29_CorrectedRecordResolves ==
    (Called /\ CredentialsError(ssm[lookup.key]) = "") => lookup.error = ""

\* The stored configuration is well-formed apart, perhaps, from its addresses.
WellFormed(parameter) ==
    /\ parameter.kind = "json"
    /\ parameter.apiKey = "sk_live"
    /\ parameter.accountNumber \in Accounts

\* The addresses of `emails` that are well-formed once the padding is removed,
\* without the padding, in their order.
WellFormedAddresses(emails) ==
    LET accepted(e) == e \in {PlainAddress, PaddedAddress}
        kept == SelectSeq(emails.list, accepted)
    IN  [i \in 1 .. Len(kept) |->
           IF kept[i] = PaddedAddress THEN <<"v", "@", "d", ".", "c">>
           ELSE kept[i]]

\* C30: a call on a configuration that is well-formed apart from its addresses
\* succeeds, and returns the well-formed addresses of the list, trimmed and in
\* their order: none when the list is absent or holds no such address.
C30_InvalidAddressesDropped ==
    (Called /\ WellFormed(lookup.value))
    => /\ lookup.error = ""
       /\ lookup.emails = WellFormedAddresses(lookup.value.emails)
       /\ lookup.value.emails.absent => lookup.emails = <<>>

\* An address without a dot was dropped, the padded one after it kept.
C30_Witness ==
    /\ Called /\ lookup.error = ""
    /\ lookup.value.emails.list = << <<"u", "@", "d">>, PaddedAddress >>
    /\ lookup.emails = << <<"v", "@", "d", ".", "c">> >>

\* C24: with runs of two accounts interleaved, a step of a run leaves the
\* other account's record, vouchers and outcome alone; the record a run reads
\* is the row of its own account and the record it writes goes to that row
\* under that key; and each run ends as it does alone: Skip exactly on a fresh
\* emailed record of its own, and on a success path with its own record in
\* its own row.
C24_AccountsIsolated ==
    /\ [](\A r \in DOMAIN run :
            /\ Present(run[r].existing)
               => run[r].existing.accountNumber = run[r].acct
            /\ Present(run[r].state)
               => run[r].state.accountNumber = run[r].acct
            /\ (run[r].path \in SuccessPaths /\ RanThrough(run[r]))
               => /\ store[run[r].acct] = MarkSent(run[r].state)
                  /\ run[r].resp.action = run[r].path
            /\ (run[r].pc = "done" /\ run[r].readOk)
               => (run[r].resp.action = "none"
                     <=> /\ Present(store[run[r].acct])
                         /\ store[run[r].acct] = run[r].existing
                         /\ run[r].existing.expiresAt > run[r].now
                         /\ run[r].existing.emailSent))
    /\ [](\A a \in DOMAIN store :
            Present(store[a]) => store[a].accountNumber = a)
    /\ [][\A r \in DOMAIN run :
            run'[r] # run[r]
            => LET a == run'[r].acct
               IN  /\ \A b \in DOMAIN store \ {a} :
                         /\ store'[b] = store[b]
                         /\ remote'[b] = remote[b]
                         /\ last'[b] = last[b]
                   /\ (run'[r].readOk /\ ~run[r].readOk)
                      => run'[r].existing = store[a]
                   /\ store'[a] # store[a]
                      => store'[a] = MarkSent(run[r].state)]_vars

\* The run of one account has written and is about to send while the run of
\* the other, having claimed, is about to write.
C24_Witness ==
    \E r, q \in DOMAIN run :
        /\ run[r].acct # run[q].acct
        /\ run[r].pc = "send" /\ run[r].path = "email_sent"
        /\ run[q].pc = "save" /\ run[q].path = "claimed"
        /\ ~Present(store[run[q].acct])

\* Sunday 00:00:00.000 UTC: day 0 of the epoch is a Thursday, day 3 a Sunday.
IsSundayMidnight(ms) == ms % (7 * MsPerDay) = 3 * MsPerDay

\* C33: getNextSundayMidnight(t) is a Sunday 00:00:00.000 UTC strictly later
\* than t and at most 7 days later, so the earliest such; for t at Sunday
\* 00:00:00.000 UTC exactly it is t plus 7 days.
C33_NextSundayStrictlyLater ==
    Applied("getNextSundayMidnight")
    => LET t == lookup.fromMs
           r == lookup.result
       IN  /\ IsSundayMidnight(r)
           /\ 0 < r - t /\ r - t <= 7 * MsPerDay
           /\ \A s \in DateInstants : (IsSundayMidnight(s) /\ s > t) => r <= s
           /\ IsSundayMidnight(t) => r = t + 7 * MsPerDay

\* The function was applied at a Sunday 00:00:00.000 UTC after the first.
C33_Witness ==
    /\ Applied("getNextSundayMidnight")
    /\ IsSundayMidnight(lookup.fromMs) /\ lookup.fromMs > FirstInstant
    /\ lookup.result = lookup.fromMs + 7 * MsPerDay

\* Saturday 09:00:00.000 UTC: day 2 of the epoch is a Saturday.
IsSaturdayAt9AM(ms) == ms % (7 * MsPerDay) = 2 * MsPerDay + ResetTimeOfDay

\* C38: the boundary shouldSkipAccount computes is the latest Saturday
\* 09:00:00.000 UTC at or before now (on a Saturday before 09:00 that of the
\* week before), and the call returns true exactly when a record exists whose
\* lastClaimedAt is strictly after the boundary.
C38_WeeklyResetBoundary ==
    (Applied("shouldSkipAccount") /\ ~lookup.threw)
    => LET now == lookup.now
           b == lookup.resetBoundary
           state == lookup.state
       IN  /\ IsSaturdayAt9AM(b)
           /\ b <= now /\ now - b < 7 * MsPerDay
           /\ (getUTCDay(now) = 6 /\ now % MsPerDay < ResetTimeOfDay)
              => b = (now \div MsPerDay) * MsPerDay - 7 * MsPerDay + ResetTimeOfDay
           /\ lookup.result
              <=> (/\ state # Absent
                   /\ state.lastClaimedAt # 0
                   /\ state.lastClaimedAt > b)

\* Asked on a Saturday a millisecond before the reset about a claim of the
\* Monday before, the service says skip; the boundary is a week back.
C38_Witness ==
    /\ Applied("shouldSkipAccount") /\ ~lookup.threw
    /\ getUTCDay(lookup.now) = 6
    /\ lookup.now % MsPerDay = ResetTimeOfDay - 1
    /\ lookup.state # Absent
    /\ getUTCDay(lookup.state.lastClaimedAt) = 1
    /\ lookup.result

\* The run read a fresh record whose email is still owed.
ReadOwed(rr) ==
    /\ rr.readOk /\ Present(rr.existing)
    /\ rr.existing.expiresAt > rr.now /\ ~rr.existing.emailSent

\* The table holds the record the run read with emailSent = true and every
\* other field as it was.
RewroteFlagOnly(rr) ==
    LET e == rr.existing
        w == store[rr.acct]
    IN  /\ DOMAIN w = DOMAIN e
        /\ w.emailSent
        /\ w.accountNumber = e.accountNumber
        /\ w.voucherCode = e.voucherCode /\ w.barcode = e.barcode
        /\ w.expiresAt = e.expiresAt /\ w.claimedAt = e.claimedAt
        /\ w.ttl = e.ttl

\* C31 (as claimed): a run that reads a fresh record with emailSent = false
\* makes no loyalty call, rewrites the record with only the flag changed,
\* attempts the notification and ends EmailSent.
C31_OwedEmailAlwaysAttempted ==
    \A r \in DOMAIN run :
        (ReadOwed(run[r]) /\ RanThrough(run[r]))
        => /\ run[r].nOffer = 0 /\ run[r].nClaim = 0 /\ run[r].nList = 0
           /\ RewroteFlagOnly(run[r])
           /\ run[r].nSend = 1
           /\ run[r].resp.action = "email_sent"

\* C31 (amended): a run that reads a fresh record with emailSent = false makes
\* no offer-status, claim or listing call, rewrites the record with emailSent
\* = true and every other field unchanged and ends EmailSent (200, success =
\* true, the stored code); the notification is attempted, once and with the
\* stored voucherCode and barcode, exactly when the account has an address
\* configured.
C31_OwedEmailSent ==
    \A r \in DOMAIN run :
        /\ ReadOwed(run[r])
           => /\ run[r].nOffer = 0 /\ run[r].nClaim = 0 /\ run[r].nList = 0
              /\ run[r].path = "email_sent"
              /\ run[r].voucher.code = run[r].existing.voucherCode
              /\ run[r].voucher.barcode = run[r].existing.barcode
              /\ run[r].nWriteOk = 1 => RewroteFlagOnly(run[r])
              /\ run[r].nSend > 0 => (run[r].nWriteOk = 1 /\ run[r].emails > 0)
        /\ (ReadOwed(run[r]) /\ RanThrough(run[r]))
           => /\ run[r].nWrite = 1 /\ run[r].nWriteOk = 1
              /\ run[r].nSend = (IF run[r].emails > 0 THEN 1 ELSE 0)
              /\ (run[r].nSend = 1 /\ ~run[r].sendFailed)
                 => sent[run[r].existing.voucherCode] > 0
              /\ run[r].resp.statusCode = 200 /\ run[r].resp.success
              /\ run[r].resp.action = "email_sent"
              /\ run[r].resp.voucherCode = run[r].existing.voucherCode

\* The owed email of a record was delivered, several days after the claim.
C31_Witness ==
    \E r \in DOMAIN run :
        /\ ReadOwed(run[r]) /\ RanThrough(run[r])
        /\ run[r].now > run[r].existing.claimedAt
        /\ run[r].nSend = 1 /\ ~run[r].sendFailed
        /\ sent[run[r].existing.voucherCode] = 1
        /\ store[run[r].acct].emailSent

\* The account of the run has no notification address configured.
NoAddress(rr) == rr.credsOk /\ rr.emails = 0

\* The run follows a run of its account that claimed or recovered the voucher
\* of the record it reads and attempted no send for it: no email of the
\* voucher was delivered, and none was missed.
FollowsUnnotified(rr) ==
    /\ rr.prev.action \in {"claimed", "recovered_existing"}
    /\ rr.prev.missed = 0
    /\ rr.readOk /\ Present(rr.existing)
    /\ sent[rr.existing.voucherCode] = 0

\* C32: a run of an account without notification address attempts no send;
\* its claim or recovery ends as it does with an address (200, success = true,
\* claimed or recovered_existing, the voucher's code) and the record is
\* persisted with emailSent = true; a later run that reads the record while
\* it is fresh ends Skip.
C32_NoAddressStillSucceeds ==
    \A r \in DOMAIN run :
        /\ NoAddress(run[r]) => (run[r].nSend = 0 /\ run[r].pc # "send")
        /\ (/\ NoAddress(run[r]) /\ RanThrough(run[r])
            /\ run[r].path \in {"claimed", "recovered_existing"})
           => /\ run[r].resp.statusCode = 200 /\ run[r].resp.success
              /\ run[r].resp.action = run[r].path
              /\ run[r].resp.voucherCode = run[r].voucher.code
              /\ run[r].nWriteOk = 1
              /\ Present(store[run[r].acct])
              /\ store[run[r].acct].voucherCode = run[r].voucher.code
              /\ store[run[r].acct].barcode = run[r].voucher.barcode
              /\ store[run[r].acct].emailSent
        /\ (FollowsUnnotified(run[r]) /\ run[r].existing.expiresAt > run[r].now)
           => /\ run[r].existing.emailSent
              /\ run[r].pc = "done"
              /\ run[r].resp.statusCode = 200
              /\ run[r].resp.action = "none"
              /\ Untouched(run[r])

\* A voucher was claimed for an account without address; the next run found
\* its record fresh and skipped, no email of the voucher ever delivered.
C32_Witness ==
    \E r \in DOMAIN run :
        /\ FollowsUnnotified(run[r]) /\ run[r].prev.action = "claimed"
        /\ run[r].existing.voucherCode >= 2
        /\ run[r].existing.expiresAt > run[r].now
        /\ run[r].pc = "done" /\ run[r].resp.action = "none"

\* C34 (as claimed): in the recovery path a listed voucher is persisted and
\* emailed only if its expiresAt is present and denotes an instant strictly
\* later than the run's now; a voucher whose expiresAt is missing or does not
\* parse is discarded like an expired one, the run ending out_of_stock or
\* voucher_expired by the reason.
C34_UndatedVoucherDiscarded ==
    \A r \in DOMAIN run :
        /\ run[r].path = "recovered_existing"
           => /\ run[r].voucher.expiresAt.kind = "iso"
              /\ run[r].voucher.expiresAt.ms > run[r].now
        /\ (/\ ToldRecoverable(run[r]) /\ run[r].listed = "voucher"
            /\ run[r].voucher.expiresAt.kind \in {"absent", "unparsable"}
            /\ run[r].pc = "done" /\ ~run[r].aborted)
           => EndedWithout(run[r], ExpectedAction(run[r], "out_of_stock",
                                                  "voucher_expired"))

\* C35: every step that changes a row of the table leaves a record with
\* emailSent = true there, though buildState made it with emailSent = false;
\* so a row with emailSent = false is a record the handler did not write (one
\* of the initial records, no run of the account having ended on a success
\* path), and only such a record takes a run down the email_sent path.
C35_HandlerWritesEmailSent ==
    /\ [][\A a \in DOMAIN store :
            store'[a] # store[a]
            => (Present(store'[a]) /\ store'[a].emailSent)]_vars
    /\ [](\A a \in DOMAIN store :
            (Present(store[a]) /\ ~store[a].emailSent)
            => /\ store[a] \in InitStates(a)
               /\ last[a].action \notin SuccessPaths)
    /\ [](\A r \in DOMAIN run :
            /\ (run[r].path \in {"claimed", "recovered_existing"})
               => ~run[r].state.emailSent
            /\ run[r].path = "email_sent"
               => /\ ~run[r].existing.emailSent
                  /\ run[r].existing \in InitStates(run[r].acct)
                  /\ run[r].prev.action \notin SuccessPaths)

\* A record built with emailSent = false after a claim is in the table with
\* emailSent = true.
C35_Witness ==
    \E r \in DOMAIN run :
        /\ run[r].path = "claimed" /\ run[r].nWriteOk = 1
        /\ ~run[r].state.emailSent
        /\ store[run[r].acct].voucherCode = run[r].state.voucherCode
        /\ store[run[r].acct].claimedAt = run[r].state.claimedAt
        /\ store[run[r].acct].emailSent

\* ttl * 1000 > expiresAt, compared in whole seconds (ttl is a whole number
\* of seconds, so the two comparisons agree).
TtlAfterExpiry(state) == state.ttl > state.expiresAt \div MsPerSecond

\* C37: in every record the handler hands to saveState after a claim or a
\* recovery the ttl is the second of claimedAt plus 30 days, and in every
\* record of the table ttl * 1000 is strictly greater than expiresAt.
C37_TtlAfterExpiry ==
    /\ \A r \in DOMAIN run :
          (run[r].nWrite > 0 /\ run[r].path \in {"claimed", "recovered_existing"})
          => LET updated == MarkSent(run[r].state)
             IN  /\ updated.ttl = (updated.claimedAt \div MsPerSecond)
                                    + TtlDays * 24 * 60 * 60
                 /\ TtlAfterExpiry(updated)
    /\ \A r \in DOMAIN run :
          run[r].nWrite > 0 => TtlAfterExpiry(MarkSent(run[r].state))
    /\ \A a \in DOMAIN store : Present(store[a]) => TtlAfterExpiry(store[a])

\* A record claimed at Sunday 00:00:00.000 UTC, a full week before its
\* expiry, is in the table.
C37_Witness ==
    \E r \in DOMAIN run :
        /\ run[r].nWriteOk = 1 /\ run[r].path = "claimed"
        /\ store[run[r].acct] = MarkSent(run[r].state)
        /\ store[run[r].acct].expiresAt - store[run[r].acct].claimedAt = 7 * MsPerDay
        /\ store[run[r].acct].claimedAt > FirstInstant

\* Runs r and q of one account overlap: both read the state before either wrote
\* it.  (Every write of a run changes the row, and each context runs once, so
\* the two read the same row exactly when neither had written at the second
\* read.)
Overlapped(r, q) ==
    /\ r # q /\ run[r].acct = run[q].acct
    /\ run[r].readOk /\ run[q].readOk
    /\ run[r].existing = run[q].existing

\* The run's email of voucher code c was delivered.
Delivered(rr, c) ==
    /\ rr.pc = "done" /\ rr.nSend = 1 /\ ~rr.sendFailed /\ ~rr.aborted
    /\ rr.voucher.code = c

\* C36 (as claimed): of two overlapping invocations for one account at most
\* one delivers an email for a given voucher code and at most one issues a
\* successful claim.
C36_OverlapAtMostOnce ==
    \A r, q \in DOMAIN run :
        Overlapped(r, q)
        => /\ \A c \in DOMAIN sent :
                 ~(Delivered(run[r], c) /\ Delivered(run[q], c))
           /\ ~(run[r].claimedCode # 0 /\ run[q].claimedCode # 0)

====
